---- MODULE Spec2Model ----
(***************************************************************************)
(* StitchDB transaction engine (Tx): the per-bucket reader/writer lock,    *)
(* the rollback context (backward / forward / backwardIndex maps), and     *)
(* the commit and rollback protocols.                                      *)
(*                                                                         *)
(* Five specifications share the same actions:                             *)
(*   Spec      one Tx object and one key: every sequence of calls on the   *)
(*             Tx, before and after it ended, with the database closing;   *)
(*   SpecData  one read-write transaction run as StitchDB.Update runs it,  *)
(*             on every key of a bucket with any contents;                 *)
(*   SpecLock  NumTx Tx objects contending for the bucket lock;            *)
(*   SpecRead  one transaction reading and writing a bucket some of whose  *)
(*             entries are expired or invalid, what each call returned     *)
(*             being recorded;                                             *)
(*   SpecCalls one Tx object and one key, up to its CommitTx/RollbackTx,   *)
(*             with the database closing, what each call returned being    *)
(*             recorded.                                                   *)
(*                                                                         *)
(* The model follows the file that implements the Tx methods (RbCtx with   *)
(* its three maps, src/unnamed/part_000); src/tx.go declares the same type *)
(* with empty method bodies.  Bucket, Index and StitchDB are not part of   *)
(* the sources: the bucket is its primary index (insert / delete / get by  *)
(* key), its index registry, its lock and its log.                         *)
(*                                                                         *)
(* Each Tx method is one atomic action.  sync.RWMutex is modelled by its   *)
(* documented contract: Lock excludes everything, RLock excludes writers,  *)
(* a lock is not bound to the goroutine that took it, and unlocking a      *)
(* mutex that is not locked is a fatal runtime error.                      *)
(***************************************************************************)
EXTENDS Integers, Sequences, FiniteSets, TLC

\* ------------------------------------------------------------------ bounds
NumTx == 3          \* transaction objects in SpecLock
MaxVal == 2         \* entry values are 1..MaxVal
MaxEnds == 2        \* CommitTx/RollbackTx invocations followed per transaction
MaxLate == 1        \* data-access calls followed on a Tx after its first CommitTx/RollbackTx
MaxDead == 1        \* entries that are expired or invalid in SpecRead

Txs == 1..NumTx
OneTx == {1}
Keys == {"a", "b"}
OneKey == {"a"}
Vals == 1..MaxVal
IndexNames == {"x"}

\* The keys in the order of the primary index (btree order of Entry.k).
KeyOrder == <<"a", "b">>

MODE_READ == "MODE_READ"
MODE_READ_WRITE == "MODE_READ_WRITE"
Modes == {MODE_READ, MODE_READ_WRITE}

\* ----------------------------------------------------------------- values
\* *Entry: a key and a value.  nil is Go's nil pointer, Missing marks a key
\* that is not in a Go map (a map can also hold a key with a nil value).
Entry == [k : Keys, v : Vals]
nil == [k |-> "", v |-> -1]
Missing == [k |-> "", v |-> -2]

\* The ordered tree of a bucket or of an index, as the entry stored per key.
EmptyTree == [k \in Keys |-> nil]
Trees == [Keys -> Entry \cup {nil}]

\* *Index: its name (pattern) and its tree t.
NilIndex == [name |-> "", t |-> EmptyTree]
MissingIndex == [name |-> "?", t |-> EmptyTree]

\* Error values returned by the Tx methods.
OK == "nil"
InvalidState == "InvalidState"
IllegalOperation == "IllegalOperation"
AlreadyExists == "AlreadyExists"
NotFound == "NotFound"

\* What a data-access call returned: the method, its key or index-name
\* argument, the entry and the error returned and, for a walk, the keys on
\* which its visitor returns false and the entries the visitor was invoked on,
\* in order.
Result(op, k, e, err) ==
    [op |-> op, k |-> k, e |-> e, err |-> err, stop |-> {}, seen |-> <<>>]
NoRes == Result("", "", nil, OK)

VARIABLES
    dbOpen,         \* t.db.open
    bktOpen,        \* t.bkt.open
    data,           \* t.bkt.data: the primary index, key -> entry or nil
    indexes,        \* t.bkt.indexes: name -> *Index, NilIndex when not registered
    bktlock,        \* t.bkt.bktlock: [w |-> writer holds, r |-> number of read locks]
    aof,            \* the bucket's durability log: the records appended, in order
    fatal,          \* the Go runtime stopped the process (unlock of an unlocked mutex, nil dereference)
    expired,        \* the entries whose expiration has passed (Entry.IsExpired)
    invalid,        \* the entries marked invalid (Entry.IsInvalid)
    txState,        \* per Tx: "none" (not constructed), "new" (NewTx returned), "locked" (lock() returned)
    txMode,         \* per Tx: t.mode
    bktNil,         \* per Tx: t.bkt == nil
    backward,       \* per Tx: t.rbctx.backward
    forward,        \* per Tx: t.rbctx.forward
    backwardIndex,  \* per Tx: t.rbctx.backwardIndex
    held,           \* history: the Tx has taken the bucket lock and has not released it
    unlocks,        \* history: number of unlock() calls the Tx has made
    ends,           \* history: the CommitTx/RollbackTx calls made on the Tx and their errors, in order
    late,           \* history: number of data-access calls made on the Tx after the first of those
    net,            \* history: per Tx and key, the last Set/Delete that took effect
    data0,          \* history: the primary index when the Tx was constructed
    indexes0,       \* history: the index registry when the Tx was constructed
    unlockLog,      \* history: per Tx, the log as it was when the Tx last called unlock()
    recording,      \* history: whether res is kept (fixed by the initial state)
    res             \* history: what the last data-access call returned, NoRes before any

vars == <<dbOpen, bktOpen, data, indexes, bktlock, aof, fatal, expired, invalid, txState,
          txMode, bktNil, backward, forward, backwardIndex, held, unlocks, ends, late, net,
          data0, indexes0, unlockLog, recording, res>>

\* What no method of Tx changes.
envVars == <<expired, invalid, recording>>

bucketVars == <<data, indexes>>
rbctxVars == <<backward, forward, backwardIndex>>

\* ------------------------------------------------------- bucket and index
\* Index.build: the index holds the entries of the primary index (every entry
\* of the model carries the indexed field).
build(name, d) == [name |-> name, t |-> [k \in Keys |-> d[k]]]

\* Bucket.insert / Bucket.delete / Bucket.get on the primary index.
bktInsert(d, e) == [d EXCEPT ![e.k] = e]
bktDelete(d, k) == [d EXCEPT ![k] = nil]
bktGet(d, k) == d[k]

Registered == {n \in IndexNames : indexes[n] # NilIndex}

\* Bucket.WriteInsertEntry / WriteDeleteEntry / WriteAOFBuf: the log records.
InsertRec(e) == [op |-> "insert", k |-> e.k, v |-> e.v]
DeleteRec(k) == [op |-> "delete", k |-> k, v |-> -1]
FlushRec == [op |-> "flush", k |-> "", v |-> -1]

\* ------------------------------------------------------------------- lock
FreeLock == [w |-> FALSE, r |-> 0]

\* Tx.lock blocks until the mode's lock can be taken.
CanLock(m, lk) == IF m = MODE_READ THEN ~lk.w ELSE ~lk.w /\ lk.r = 0
Locked(m, lk) == IF m = MODE_READ THEN [lk EXCEPT !.r = @ + 1] ELSE [lk EXCEPT !.w = TRUE]

\* Tx.unlock: RUnlock / Unlock of a mutex not locked that way is fatal.
UnlockFatal(m, lk) == IF m = MODE_READ THEN lk.r = 0 ELSE ~lk.w
Unlocked(m, lk) ==
    IF UnlockFatal(m, lk) THEN lk
    ELSE IF m = MODE_READ THEN [lk EXCEPT !.r = @ - 1] ELSE [lk EXCEPT !.w = FALSE]

\* A guard without the check that the bucket is open.
InvalidNoBucketOpenCheck(t) == ~dbOpen \/ bktNil[t]

\* The guard shared by Get, Set, Delete, CreateIndex and DropIndex.
Invalid(t) == ~dbOpen \/ bktNil[t] \/ ~bktOpen

\* Entry.IsExpired / Entry.IsInvalid
IsExpired(e) == e \in expired
IsInvalid(e) == e \in invalid

\* btree Ascend / Descend over tree d, keys being the keys in the order of the
\* walk: the iterator is invoked on each entry until it returns false, which
\* the visitor does on the keys in stop.
RECURSIVE Walk(_, _, _)
Walk(keys, d, stop) ==
    IF keys = <<>> THEN <<>>
    ELSE IF d[Head(keys)] = nil THEN Walk(Tail(keys), d, stop)
    ELSE IF Head(keys) \in stop THEN <<d[Head(keys)]>>
    ELSE <<d[Head(keys)]>> \o Walk(Tail(keys), d, stop)

Reverse(s) == [i \in DOMAIN s |-> s[Len(s) + 1 - i]]

\* ------------------------------------------------------------------- Init
ConsistentIndexes(d) ==
    {ix \in [IndexNames -> {NilIndex} \cup {build(n, d) : n \in IndexNames}] :
        \A n \in IndexNames : ix[n] # NilIndex => ix[n].name = n}

InitCommon ==
    /\ dbOpen = TRUE
    /\ bktOpen = TRUE
    /\ bktlock = FreeLock
    /\ aof = <<>>
    /\ fatal = FALSE
    /\ txState = [t \in Txs |-> "none"]
    /\ txMode = [t \in Txs |-> MODE_READ]
    /\ bktNil = [t \in Txs |-> FALSE]
    /\ unlockLog = [t \in Txs |-> <<>>]
    /\ res = NoRes
    /\ backward = [t \in Txs |-> [k \in Keys |-> Missing]]
    /\ forward = [t \in Txs |-> [k \in Keys |-> Missing]]
    /\ backwardIndex = [t \in Txs |-> [n \in IndexNames |-> MissingIndex]]
    /\ held = [t \in Txs |-> FALSE]
    /\ unlocks = [t \in Txs |-> 0]
    /\ ends = [t \in Txs |-> <<>>]
    /\ late = [t \in Txs |-> 0]
    /\ net = [t \in Txs |-> [k \in Keys |-> Missing]]

\* The buckets whose entries lie under the keys in K, each under its own key.
Buckets(K) ==
    {d \in Trees : \A k \in Keys : d[k] # nil => (k \in K /\ d[k].k = k)}

\* A bucket with any contents under the keys in K, its indexes built from them.
InitBucket(K) ==
    /\ InitCommon
    /\ data \in Buckets(K)
    /\ indexes \in ConsistentIndexes(data)
    /\ data0 = data
    /\ indexes0 = indexes

\* Every entry is valid and not expired.
AllLive == expired = {} /\ invalid = {}

Init == InitBucket(OneKey) /\ AllLive /\ recording = FALSE

InitData == InitBucket(Keys) /\ AllLive /\ recording = FALSE

\* An empty bucket.
InitLock ==
    /\ InitCommon
    /\ data = EmptyTree
    /\ indexes = [n \in IndexNames |-> NilIndex]
    /\ data0 = data
    /\ indexes0 = indexes
    /\ AllLive
    /\ recording = FALSE

\* The entries of SpecRead: one entry per key.
ReadEntry == {e \in Entry : e.v = 1}

\* A bucket with any of these entries, at most MaxDead of them expired or
\* invalid; results are recorded.
InitRead ==
    /\ InitBucket(Keys)
    /\ \A k \in Keys : data[k] \in ReadEntry \cup {nil}
    /\ expired \in SUBSET ReadEntry
    /\ invalid \in SUBSET ReadEntry
    /\ Cardinality(expired \cup invalid) <= MaxDead
    /\ recording = TRUE

\* A bucket with any contents under one key; results are recorded.
InitCalls == InitBucket(OneKey) /\ AllLive /\ recording = TRUE

\* ---------------------------------------------------------------- actions
\* A nil-pointer dereference of t.bkt: the panic stops the process.
Crash ==
    /\ fatal' = TRUE
    /\ UNCHANGED <<dbOpen, bktOpen, data, indexes, bktlock, aof, txState, txMode, bktNil,
                   backward, forward, backwardIndex, held, unlocks, ends, net, data0,
                   indexes0, unlockLog, res, envVars>>

\* The call returns r.
Return(r) == res' = IF recording THEN r ELSE res

\* NewTx: a Tx with empty maps on the bucket given (b: it is nil); the bucket
\* lock is not touched.
NewTx(t, b, m) ==
    /\ ~fatal
    /\ txState[t] = "none"
    /\ txState' = [txState EXCEPT ![t] = "new"]
    /\ txMode' = [txMode EXCEPT ![t] = m]
    /\ bktNil' = [bktNil EXCEPT ![t] = b]
    /\ backward' = [backward EXCEPT ![t] = [k \in Keys |-> Missing]]
    /\ forward' = [forward EXCEPT ![t] = [k \in Keys |-> Missing]]
    /\ backwardIndex' = [backwardIndex EXCEPT ![t] = [n \in IndexNames |-> MissingIndex]]
    /\ data0' = data
    /\ indexes0' = indexes
    /\ UNCHANGED <<dbOpen, bktOpen, data, indexes, bktlock, aof, fatal, held, unlocks,
                   ends, late, net, unlockLog, res, envVars>>

\* Tx.lock, called once on a constructed Tx by the code that begins a
\* transaction, before the Tx is committed or rolled back.
lock(t) ==
    /\ ~fatal
    /\ txState[t] = "new"
    /\ ends[t] = <<>>
    /\ IF bktNil[t]
       THEN Crash /\ UNCHANGED late
       ELSE /\ CanLock(txMode[t], bktlock)
            /\ bktlock' = Locked(txMode[t], bktlock)
            /\ txState' = [txState EXCEPT ![t] = "locked"]
            /\ held' = [held EXCEPT ![t] = TRUE]
            /\ UNCHANGED <<dbOpen, bktOpen, data, indexes, aof, fatal, txMode, bktNil,
                           backward, forward, backwardIndex, unlocks, ends, late, net, data0,
                           indexes0, unlockLog, res, envVars>>

\* A CommitTx/RollbackTx call and the error it returned.
Ended(op, err) == [op |-> op, err |-> err]

\* The effect of t.unlock() on the lock and on the history variables, log being
\* the log when it is called.
DoUnlock(t, log) ==
    /\ bktlock' = Unlocked(txMode[t], bktlock)
    /\ fatal' = UnlockFatal(txMode[t], bktlock)
    /\ held' = [held EXCEPT ![t] = FALSE]
    /\ unlocks' = [unlocks EXCEPT ![t] = @ + 1]
    /\ unlockLog' = [unlockLog EXCEPT ![t] = log]

NoUnlock == UNCHANGED <<bktlock, fatal, held, unlocks, unlockLog>>

\* The tree after RollbackTx replayed the backward map bw over tree tr: a key
\* recorded with nil is deleted, a key recorded with an entry gets that entry.
Undo(tr, bw) ==
    [k \in Keys |-> IF bw[k] = Missing THEN tr[k] ELSE bw[k]]

\* Tx.RollbackTx
RollbackTx(t) ==
    /\ ~fatal
    /\ txState[t] # "none"
    /\ Len(ends[t]) < MaxEnds
    /\ IF bktNil[t]
       THEN Crash /\ UNCHANGED late
       ELSE /\ data' = Undo(data, backward[t])
            /\ indexes' = [n \in IndexNames |->
                              IF indexes[n] = NilIndex THEN NilIndex
                              ELSE [indexes[n] EXCEPT !.t = Undo(@, backward[t])]]
            /\ DoUnlock(t, aof)
            /\ ends' = [ends EXCEPT ![t] = Append(@, Ended("RollbackTx", OK))]
            /\ UNCHANGED <<dbOpen, bktOpen, aof, txState, txMode, bktNil, backward, forward,
                           backwardIndex, late, net, data0, indexes0, res, envVars>>

\* The orders in which a range over a Go map can visit the keys in S.
Orders(S) ==
    {s \in [1..Cardinality(S) -> S] : \A i, j \in 1..Cardinality(S) : i # j => s[i] # s[j]}

\* The record CommitTx writes for a key of the forward map.
CommitRec(fw, k) == IF fw[k] = nil THEN DeleteRec(k) ELSE InsertRec(fw[k])

\* A CommitTx without the check of the transaction's mode.
CommitErrNoModeCheck(t) == IF ~dbOpen THEN InvalidState ELSE OK

\* The error CommitTx returns.
CommitErr(t) ==
    IF ~dbOpen THEN InvalidState
    ELSE IF txMode[t] = MODE_READ THEN IllegalOperation
    ELSE OK

\* A commit that flushes the log buffer before it writes the records.
CommitLogFlushFirst(log, recs) == log \o <<FlushRec>> \o recs

\* The log after a commit: the records written, then the flush of the buffer.
CommitLog(log, recs) == log \o recs \o <<FlushRec>>

\* Tx.CommitTx
CommitTx(t) ==
    /\ ~fatal
    /\ txState[t] # "none"
    /\ Len(ends[t]) < MaxEnds
    /\ IF CommitErr(t) = OK /\ bktNil[t]
       THEN Crash /\ UNCHANGED late
       ELSE /\ ends' = [ends EXCEPT ![t] = Append(@, Ended("CommitTx", CommitErr(t)))]
            /\ IF CommitErr(t) # OK
               THEN /\ NoUnlock
                    /\ UNCHANGED aof
               ELSE /\ \E ord \in Orders({k \in Keys : forward[t][k] # Missing}) :
                          aof' = CommitLog(aof, [i \in DOMAIN ord |->
                                                    CommitRec(forward[t], ord[i])])
                    /\ DoUnlock(t, aof')
            /\ UNCHANGED <<dbOpen, bktOpen, data, indexes, txState, txMode, bktNil, backward,
                           forward, backwardIndex, late, net, data0, indexes0, res, envVars>>

\* A data-access method is called on a constructed Tx; the history counts the
\* calls made after the Tx was committed or rolled back.
Called(t) ==
    /\ ~fatal
    /\ txState[t] # "none"
    /\ ends[t] = <<>> \/ late[t] < MaxLate
    /\ late' = [late EXCEPT ![t] = IF ends[t] # <<>> THEN @ + 1 ELSE @]

\* The error Get, Set and Delete return.
AccessErr(t) == IF Invalid(t) THEN InvalidState ELSE OK

\* A Get that returns whatever entry the primary index holds.
GetResUnfiltered(t, k) == IF AccessErr(t) # OK THEN nil ELSE bktGet(data, k)

\* The entry Get returns.
GetRes(t, k) ==
    IF AccessErr(t) # OK THEN nil
    ELSE IF bktGet(data, k) # nil /\ (IsExpired(bktGet(data, k)) \/ IsInvalid(bktGet(data, k)))
         THEN nil
    ELSE bktGet(data, k)

\* Tx.Get
Get(t, k) ==
    /\ Called(t)
    /\ Return(Result("Get", k, GetRes(t, k), AccessErr(t)))
    /\ UNCHANGED <<dbOpen, bktOpen, data, indexes, bktlock, aof, fatal, txState, txMode,
                   bktNil, backward, forward, backwardIndex, held, unlocks, ends, net, data0,
                   indexes0, unlockLog, envVars>>

\* Tx.Ascend and Tx.Descend, keys being the keys in the order of the walk and
\* stop the keys on which the visitor f returns false: t.bkt.data is read
\* without any check, and f is invoked on every entry the walk reaches.
WalkData(t, op, keys, stop) ==
    /\ Called(t)
    /\ IF bktNil[t]
       THEN Crash
       ELSE /\ Return([Result(op, "", nil, OK) EXCEPT !.stop = stop,
                                                   !.seen = Walk(keys, data, stop)])
            /\ UNCHANGED <<dbOpen, bktOpen, data, indexes, bktlock, aof, fatal, txState,
                           txMode, bktNil, backward, forward, backwardIndex, held, unlocks,
                           ends, net, data0, indexes0, unlockLog, envVars>>

\* Tx.Ascend
Ascend(t, stop) == WalkData(t, "Ascend", KeyOrder, stop)

\* Tx.Descend
Descend(t, stop) == WalkData(t, "Descend", Reverse(KeyOrder), stop)

\* Tx.AscendIndex and Tx.DescendIndex: the bodies are empty, nil is returned
\* and the visitor is not invoked.
WalkIndex(t, op, n) ==
    /\ Called(t)
    /\ Return(Result(op, n, nil, OK))
    /\ UNCHANGED <<dbOpen, bktOpen, data, indexes, bktlock, aof, fatal, txState, txMode,
                   bktNil, backward, forward, backwardIndex, held, unlocks, ends, net, data0,
                   indexes0, unlockLog, envVars>>

\* Tx.AscendIndex
AscendIndex(t, n) == WalkIndex(t, "AscendIndex", n)

\* Tx.DescendIndex
DescendIndex(t, n) == WalkIndex(t, "DescendIndex", n)

\* What Set records in the backward map: the entry bkt.insert returned.
SetBackward(bw, k, pres) == [bw EXCEPT ![k] = pres]

\* A Set that records the forward value on the first touch of a key only.
SetForwardFirstTouch(fw, e) == IF fw[e.k] = Missing THEN [fw EXCEPT ![e.k] = e] ELSE fw

\* What Set records in the forward map.
SetForward(fw, e) == [fw EXCEPT ![e.k] = e]

\* Tx.Set
Set(t, e) ==
    /\ Called(t)
    /\ IF AccessErr(t) # OK
       THEN UNCHANGED <<data, backward, forward, net>>
       ELSE /\ data' = bktInsert(data, e)
            /\ backward' = [backward EXCEPT ![t] = SetBackward(@, e.k, bktGet(data, e.k))]
            /\ forward' = [forward EXCEPT ![t] = SetForward(@, e)]
            /\ net' = [net EXCEPT ![t][e.k] = e]
    /\ Return(Result("Set", e.k, IF AccessErr(t) # OK THEN nil ELSE bktGet(data, e.k),
                     AccessErr(t)))
    /\ UNCHANGED <<dbOpen, bktOpen, indexes, bktlock, aof, fatal, txState, txMode, bktNil,
                   backwardIndex, held, unlocks, ends, data0, indexes0, unlockLog, envVars>>

\* What Delete records in the forward map for a key that was present.
DeleteForward(fw, k) == [fw EXCEPT ![k] = nil]

\* A Delete that records the key whatever Bucket.delete returned.
DeleteRecordsAlways(dres) == TRUE

\* Whether Delete records the key in the backward and forward maps, dres
\* being what Bucket.delete returned.
DeleteRecords(dres) == dres # nil

\* Tx.Delete
Delete(t, k) ==
    /\ Called(t)
    /\ IF AccessErr(t) # OK
       THEN UNCHANGED <<data, backward, forward, net>>
       ELSE /\ data' = bktDelete(data, k)
            /\ IF DeleteRecords(bktGet(data, k))
               THEN /\ backward' = [backward EXCEPT ![t][k] = bktGet(data, k)]
                    /\ forward' = [forward EXCEPT ![t] = DeleteForward(@, k)]
               ELSE UNCHANGED <<backward, forward>>
            /\ IF bktGet(data, k) # nil
               THEN net' = [net EXCEPT ![t][k] = nil]
               ELSE UNCHANGED net
    /\ Return(Result("Delete", k, IF AccessErr(t) # OK THEN nil ELSE bktGet(data, k),
                     AccessErr(t)))
    /\ UNCHANGED <<dbOpen, bktOpen, indexes, bktlock, aof, fatal, txState, txMode, bktNil,
                   backwardIndex, held, unlocks, ends, data0, indexes0, unlockLog, envVars>>

\* The error CreateIndex returns.
CreateIndexErr(t, n) ==
    IF Invalid(t) THEN InvalidState
    ELSE IF indexes[n] # NilIndex THEN AlreadyExists
    ELSE OK

\* Tx.CreateIndex
CreateIndex(t, n) ==
    /\ Called(t)
    /\ IF CreateIndexErr(t, n) # OK
       THEN UNCHANGED <<indexes, backwardIndex>>
       ELSE /\ indexes' = [indexes EXCEPT ![n] = build(n, data)]
            /\ backwardIndex' = [backwardIndex EXCEPT ![t][n] = NilIndex]
    /\ Return(Result("CreateIndex", n, nil, CreateIndexErr(t, n)))
    /\ UNCHANGED <<dbOpen, bktOpen, data, bktlock, aof, fatal, txState, txMode, bktNil,
                   backward, forward, held, unlocks, ends, net, data0, indexes0, unlockLog,
                   envVars>>

\* A DropIndex without the check that the index exists.
DropIndexErrNoExistsCheck(t, n) == IF Invalid(t) THEN InvalidState ELSE OK

\* The error DropIndex returns.
DropIndexErr(t, n) ==
    IF Invalid(t) THEN InvalidState
    ELSE IF indexes[n] = NilIndex THEN NotFound
    ELSE OK

\* Tx.DropIndex
DropIndex(t, n) ==
    /\ Called(t)
    /\ IF DropIndexErr(t, n) # OK
       THEN UNCHANGED <<indexes, backwardIndex>>
       ELSE /\ backwardIndex' = [backwardIndex EXCEPT ![t][n] = indexes[n]]
            /\ indexes' = [indexes EXCEPT ![n] = NilIndex]
    /\ Return(Result("DropIndex", n, nil, DropIndexErr(t, n)))
    /\ UNCHANGED <<dbOpen, bktOpen, data, bktlock, aof, fatal, txState, txMode, bktNil,
                   backward, forward, held, unlocks, ends, net, data0, indexes0, unlockLog,
                   envVars>>

\* The names Indexes returns (their order is the map's, not significant).
IndexesRes(t) == Registered

\* Tx.Indexes
Indexes(t) ==
    /\ Called(t)
    /\ IF bktNil[t]
       THEN Crash
       ELSE /\ Return(Result("Indexes", "", nil, OK))
            /\ UNCHANGED <<dbOpen, bktOpen, data, indexes, bktlock, aof, fatal, txState,
                           txMode, bktNil, backward, forward, backwardIndex, held, unlocks,
                           ends, net, data0, indexes0, unlockLog, envVars>>

\* StitchDB.Close: the database stops being open while transactions exist.
CloseDB ==
    /\ ~fatal
    /\ dbOpen
    /\ dbOpen' = FALSE
    /\ UNCHANGED <<bktOpen, data, indexes, bktlock, aof, fatal, txState, txMode, bktNil,
                   backward, forward, backwardIndex, held, unlocks, ends, late, net, data0,
                   indexes0, unlockLog, res, envVars>>

\* The bucket is closed while transactions exist.
CloseBucket ==
    /\ ~fatal
    /\ bktOpen
    /\ bktOpen' = FALSE
    /\ UNCHANGED <<dbOpen, data, indexes, bktlock, aof, fatal, txState, txMode, bktNil,
                   backward, forward, backwardIndex, held, unlocks, ends, late, net, data0,
                   indexes0, unlockLog, res, envVars>>

\* Time passes: the expiration of entry e is reached.
Expire(e) ==
    /\ ~fatal
    /\ e \notin expired
    /\ Cardinality(expired \cup invalid \cup {e}) <= MaxDead
    /\ expired' = expired \cup {e}
    /\ UNCHANGED <<dbOpen, bktOpen, data, indexes, bktlock, aof, fatal, invalid, txState,
                   txMode, bktNil, backward, forward, backwardIndex, held, unlocks, ends,
                   late, net, data0, indexes0, unlockLog, recording, res>>

\* The code that begins a transaction (StitchDB.Update / StitchDB.View):
\* NewTx, then lock() on the Tx it returned.
Begin(t, m) ==
    /\ ~fatal
    /\ txState[t] = "none"
    /\ CanLock(m, bktlock)
    /\ bktlock' = Locked(m, bktlock)
    /\ txState' = [txState EXCEPT ![t] = "locked"]
    /\ txMode' = [txMode EXCEPT ![t] = m]
    /\ bktNil' = [bktNil EXCEPT ![t] = FALSE]
    /\ held' = [held EXCEPT ![t] = TRUE]
    /\ backward' = [backward EXCEPT ![t] = [k \in Keys |-> Missing]]
    /\ forward' = [forward EXCEPT ![t] = [k \in Keys |-> Missing]]
    /\ backwardIndex' = [backwardIndex EXCEPT ![t] = [n \in IndexNames |-> MissingIndex]]
    /\ data0' = data
    /\ indexes0' = indexes
    /\ UNCHANGED <<dbOpen, bktOpen, data, indexes, aof, fatal, unlocks, ends, late, net,
                   unlockLog, res, envVars>>

\* --------------------------------------------------------- specifications
\* One transaction object and one key: every sequence of calls on the Tx,
\* with the database and the bucket closing at any point.
Next ==
    \E t \in OneTx :
        \/ \E b \in BOOLEAN, m \in Modes : NewTx(t, b, m)
        \/ lock(t)
        \/ RollbackTx(t)
        \/ CommitTx(t)
        \/ \E k \in OneKey : Get(t, k)
        \/ \E e \in [k : OneKey, v : Vals] : Set(t, e)
        \/ \E k \in OneKey : Delete(t, k)
        \/ \E n \in IndexNames : CreateIndex(t, n)
        \/ \E n \in IndexNames : DropIndex(t, n)
        \/ Indexes(t)
        \/ CloseDB
        \/ CloseBucket

Spec == Init /\ [][Next]_vars

\* One read-write transaction as StitchDB.Update runs it, on all keys: begun
\* locked, used by the caller's function, then committed or rolled back once
\* and not used again.
NextData ==
    \E t \in OneTx :
        \/ Begin(t, MODE_READ_WRITE)
        \/ ends[t] = <<>> /\ RollbackTx(t)
        \/ ends[t] = <<>> /\ CommitTx(t)
        \/ \E k \in Keys : ends[t] = <<>> /\ Get(t, k)
        \/ \E e \in Entry : ends[t] = <<>> /\ Set(t, e)
        \/ \E k \in Keys : ends[t] = <<>> /\ Delete(t, k)
        \/ \E n \in IndexNames : ends[t] = <<>> /\ CreateIndex(t, n)
        \/ \E n \in IndexNames : ends[t] = <<>> /\ DropIndex(t, n)
        \/ ends[t] = <<>> /\ Indexes(t)

SpecData == InitData /\ [][NextData]_vars

\* NumTx transaction objects contending for the lock of one bucket.
NextLock ==
    \/ \E t \in Txs : \E m \in Modes : NewTx(t, FALSE, m)
    \/ \E t \in Txs : lock(t)
    \/ \E t \in Txs : RollbackTx(t)
    \/ \E t \in Txs : CommitTx(t)
    \/ \E t \in Txs : \E k \in OneKey : Get(t, k)
    \/ CloseDB

SpecLock == InitLock /\ [][NextLock]_vars

\* One read-write transaction on a bucket with expired and invalid entries:
\* it reads, walks and writes every key while entries expire.
NextRead ==
    \/ \E t \in OneTx : Begin(t, MODE_READ_WRITE)
    \/ \E t \in OneTx : \E k \in Keys : Get(t, k)
    \/ \E t \in OneTx : \E e \in ReadEntry : Set(t, e)
    \/ \E t \in OneTx : \E k \in Keys : Delete(t, k)
    \/ \E t \in OneTx : \E stop \in SUBSET Keys : Ascend(t, stop)
    \/ \E t \in OneTx : \E stop \in SUBSET Keys : Descend(t, stop)
    \/ \E e \in ReadEntry : Expire(e)

SpecRead == InitRead /\ [][NextRead]_vars

\* One transaction object and one key, on any bucket argument and in any
\* mode, until its first CommitTx or RollbackTx, with the database and the
\* bucket closing at any point.
NextCalls ==
    \E t \in OneTx :
        \/ \E b \in BOOLEAN, m \in Modes : NewTx(t, b, m)
        \/ lock(t)
        \/ ends[t] = <<>> /\ RollbackTx(t)
        \/ ends[t] = <<>> /\ CommitTx(t)
        \/ \E k \in OneKey : ends[t] = <<>> /\ Get(t, k)
        \/ \E e \in [k : OneKey, v : Vals] : ends[t] = <<>> /\ Set(t, e)
        \/ \E k \in OneKey : ends[t] = <<>> /\ Delete(t, k)
        \/ \E n \in IndexNames : ends[t] = <<>> /\ CreateIndex(t, n)
        \/ \E n \in IndexNames : ends[t] = <<>> /\ DropIndex(t, n)
        \/ \E n \in IndexNames : ends[t] = <<>> /\ AscendIndex(t, n)
        \/ \E n \in IndexNames : ends[t] = <<>> /\ DescendIndex(t, n)
        \/ CloseDB
        \/ CloseBucket

SpecCalls == InitCalls /\ [][NextCalls]_vars
\* ------------------------------------------------------------------ claims
\* The Tx has been ended by exactly one call, op, which returned err, and no
\* method has been called on it since.
JustEnded(t, op, err) == ends[t] = <<Ended(op, err)>> /\ late[t] = 0

\* The Tx ran no CreateIndex and no DropIndex.
NoIndexCalls(t) == \A n \in IndexNames : backwardIndex[t][n] = MissingIndex

\* C1: after any sequence of Set and Delete calls in one ReadWrite transaction
\* followed by RollbackTx, the primary index and every secondary index hold,
\* for every key, exactly what they held when the transaction began.
C1_RollbackRestoresState ==
    \A t \in Txs :
        (txMode[t] = MODE_READ_WRITE /\ JustEnded(t, "RollbackTx", OK) /\ NoIndexCalls(t))
            => (data = data0 /\ indexes = indexes0)

\* The log records written for key k.
RecordsOf(k) == {i \in DOMAIN aof : aof[i].op # "flush" /\ aof[i].k = k}

\* C2: after a successful CommitTx of a ReadWrite transaction, every key the
\* transaction modified has exactly one log record, a delete record if the last
\* effective operation on the key was a Delete and an insert record of the last
\* Set entry otherwise, the primary index holds that last operation's result,
\* and a key that was not modified has no record.
C2_CommitNetEffect ==
    \A t \in Txs :
        (txMode[t] = MODE_READ_WRITE /\ JustEnded(t, "CommitTx", OK)) =>
            \A k \in Keys :
                /\ net[t][k] = Missing => RecordsOf(k) = {}
                /\ net[t][k] = nil =>
                       /\ Cardinality(RecordsOf(k)) = 1
                       /\ \A i \in RecordsOf(k) : aof[i] = DeleteRec(k)
                       /\ data[k] = nil
                /\ net[t][k] \in Entry =>
                       /\ Cardinality(RecordsOf(k)) = 1
                       /\ \A i \in RecordsOf(k) : aof[i] = InsertRec(net[t][k])
                       /\ data[k] = net[t][k]

\* C2 witness: a committed transaction that set and then deleted key "a", absent
\* before, and set key "b" more than once.
C2_Witness ==
    /\ JustEnded(1, "CommitTx", OK)
    /\ data0["a"] = nil /\ net[1]["a"] = nil
    /\ net[1]["b"] \in Entry
    /\ backward[1]["b"] \in Entry /\ backward[1]["b"] # data0["b"]
    /\ Len(aof) = 3

\* C3: no two transactions hold the bucket lock at the same time unless both
\* are ReadOnly.
C3_LockExclusive ==
    \A t, u \in Txs :
        (t # u /\ held[t] /\ held[u]) => (txMode[t] = MODE_READ /\ txMode[u] = MODE_READ)

\* C4: a Tx that NewTx has returned holds the bucket lock of its mode until it
\* is ended, so every data-access call on it runs under the lock.
C4_NewTxHoldsLock ==
    \A t \in Txs :
        (txState[t] # "none" /\ ends[t] = <<>>) =>
            /\ held[t]
            /\ IF txMode[t] = MODE_READ THEN bktlock.r > 0 ELSE bktlock.w

\* C5: once CommitTx or RollbackTx has been called on a Tx, whether it returned
\* an error or not, the Tx does not hold the bucket lock.
C5_EndReleasesLock ==
    \A t \in Txs : ends[t] # <<>> => ~held[t]

\* C6: a Tx never calls unlock more often than it has taken the lock, which is
\* at most once.
C6_ReleasedOnce ==
    \A t \in Txs : unlocks[t] <= (IF txState[t] = "locked" THEN 1 ELSE 0)

\* C7: after a transaction has ended, every entry in a registered secondary
\* index is the entry the primary index holds under the same key.
C7_IndexConsistency ==
    \A t \in Txs :
        ends[t] # <<>> =>
            \A n \in Registered : \A k \in Keys :
                indexes[n].t[k] # nil => indexes[n].t[k] = data[k]

\* C8: after RollbackTx the index registry is the one from before the
\* transaction: the same names are registered.
C8_RollbackRestoresRegistry ==
    \A t \in Txs :
        JustEnded(t, "RollbackTx", OK) =>
            \A n \in IndexNames : (indexes[n] = NilIndex) <=> (indexes0[n] = NilIndex)

\* C9 as claimed: every CommitTx on a ReadOnly transaction returns
\* IllegalOperation.
C9_ReadOnlyCommitIllegal ==
    \A t \in Txs :
        txMode[t] = MODE_READ =>
            \A i \in DOMAIN ends[t] :
                ends[t][i].op = "CommitTx" => ends[t][i].err = IllegalOperation

\* C9 as amended: every CommitTx on a ReadOnly transaction returns an error,
\* IllegalOperation if the database is open and InvalidState if it is closed,
\* and the log stays without any record or flush.
C9_ReadOnlyCommitFails ==
    \A t \in OneTx :
        (txState[t] # "none" /\ txMode[t] = MODE_READ) =>
            /\ \A i \in DOMAIN ends[t] :
                   ends[t][i].op = "CommitTx" =>
                       \/ ends[t][i].err = IllegalOperation
                       \/ ends[t][i].err = InvalidState /\ ~dbOpen
            /\ aof = <<>>

\* C9 witness: CommitTx returned IllegalOperation on a ReadOnly transaction that
\* had run a Set.
C9_Witness ==
    /\ txMode[1] = MODE_READ
    /\ held[1]
    /\ forward[1]["a"] # Missing
    /\ JustEnded(1, "CommitTx", IllegalOperation)

\* C10: a data-access call on a Tx that was committed or rolled back returns
\* InvalidState and leaves the primary index and the index registry unchanged.
C10_EndedTxUnusable ==
    [][\A t \in Txs :
          late'[t] # late[t] =>
              (AccessErr(t) = InvalidState /\ data' = data /\ indexes' = indexes)]_vars

\* A data-access call has just returned: res changes with every such call
\* except one that repeats the call before it with the same result.
Returned(ops) == res' # res /\ res'.op \in ops

\* C11: every step that changes the primary index or the index registry is
\* taken by a ReadWrite transaction that holds the exclusive bucket lock (the
\* only Tx of this specification); a ReadOnly transaction changes neither.
C11_MutationUnderExclusiveLock ==
    [][(data' # data \/ indexes' # indexes) =>
          \A t \in OneTx : txMode[t] = MODE_READ_WRITE /\ held[t] /\ bktlock.w]_vars

\* The entry is neither expired nor invalid.
Live(e) == e \notin expired /\ e \notin invalid

\* C12: a Get returns no error and the entry the primary index holds under the
\* key if that entry is neither expired nor invalid, no entry if the stored
\* entry is expired or invalid or if the key is absent, and leaves the primary
\* index as it is, the expired or invalid entry still in it.
C12_GetFiltersDeadEntries ==
    [][Returned({"Get"}) =>
          /\ res'.err = OK
          /\ res'.e = (IF data[res'.k] # nil /\ Live(data[res'.k]) THEN data[res'.k] ELSE nil)
          /\ data' = data]_vars

\* C12 witness: Get of key "a" returned no entry and no error while the primary
\* index holds an expired entry under "a" and a live one under "b".
C12_Witness ==
    /\ res = Result("Get", "a", nil, OK)
    /\ data["a"] # nil /\ data["a"] \in expired
    /\ data["b"] # nil /\ Live(data["b"])

\* The database is not open, or the bucket of the Tx is nil or not open.
Closed(t) == ~dbOpen \/ bktNil[t] \/ ~bktOpen

\* C13: a Get, Set, Delete, CreateIndex or DropIndex called while the database
\* is not open or the bucket is nil or not open returns InvalidState and no
\* entry, and leaves the primary index, the index registry and the backward,
\* forward and backwardIndex maps of the transaction unchanged.
C13_ClosedFailsWithoutEffect ==
    [][\A t \in OneTx :
          (Closed(t) /\ Returned({"Get", "Set", "Delete", "CreateIndex", "DropIndex"})) =>
              /\ res'.err = InvalidState
              /\ res'.e = nil
              /\ UNCHANGED <<data, indexes, backward, forward, backwardIndex>>]_vars

\* C13 witness: a Set on a locked ReadWrite transaction returned InvalidState
\* because the bucket is closed, the database being open, and the key is still
\* absent.
C13_Witness ==
    /\ res = Result("Set", "a", nil, InvalidState)
    /\ dbOpen /\ ~bktOpen /\ ~bktNil[1]
    /\ txMode[1] = MODE_READ_WRITE /\ held[1]
    /\ data["a"] = nil /\ forward[1]["a"] = Missing

\* C14: on an open database and bucket, a CreateIndex with a registered name
\* returns AlreadyExists and a DropIndex with a name that is not registered
\* returns NotFound, and both leave the index registry and the backwardIndex
\* map of the transaction as they were.
C14_IndexNameErrorsKeepRegistry ==
    [][\A t \in OneTx :
          (~Closed(t) /\ Returned({"CreateIndex", "DropIndex"})) =>
              /\ (res'.op = "CreateIndex" /\ indexes[res'.k] # NilIndex) =>
                     /\ res'.err = AlreadyExists
                     /\ UNCHANGED <<indexes, backwardIndex>>
              /\ (res'.op = "DropIndex" /\ indexes[res'.k] = NilIndex) =>
                     /\ res'.err = NotFound
                     /\ UNCHANGED <<indexes, backwardIndex>>]_vars

\* C14 witness: a DropIndex of "x" returned NotFound on a bucket that never had
\* the index, and the transaction has no backwardIndex record of it.
C14_Witness ==
    /\ res = Result("DropIndex", "x", nil, NotFound)
    /\ indexes0["x"] = NilIndex /\ indexes["x"] = NilIndex
    /\ backwardIndex[1]["x"] = MissingIndex
    /\ dbOpen /\ bktOpen /\ held[1]

\* C15: an AscendIndex or DescendIndex on a name that is not in the index
\* registry returns NotFound and does not invoke the visitor.
C15_WalkUnknownIndexNotFound ==
    [][(Returned({"AscendIndex", "DescendIndex"}) /\ indexes[res'.k] = NilIndex) =>
          (res'.err = NotFound /\ res'.seen = <<>>)]_vars

\* The position of key k in the order of the primary index.
Rank(k) == CHOOSE i \in DOMAIN KeyOrder : KeyOrder[i] = k

\* The entries seen are entries of tree d, all live, each key after the one
\* before it in the order given by before; every live entry of d is seen unless
\* the visitor stopped the walk at an earlier one, and the walk went past no
\* entry on which the visitor stops.
VisitsLiveInOrder(seen, d, stop, before(_, _)) ==
    /\ \A i \in DOMAIN seen : seen[i] = d[seen[i].k] /\ Live(seen[i])
    /\ \A i, j \in DOMAIN seen : i < j => before(seen[i].k, seen[j].k)
    /\ \A i \in DOMAIN seen : i < Len(seen) => seen[i].k \notin stop
    /\ \A k \in Keys :
           (d[k] # nil /\ Live(d[k])) =>
               \/ \E i \in DOMAIN seen : seen[i].k = k
               \/ \E j \in Keys : /\ before(j, k) /\ j \in stop
                                  /\ d[j] # nil /\ Live(d[j])

\* C16: Ascend invokes the visitor on the live entries of the primary index,
\* as the transaction has changed it so far, in increasing key order, and
\* Descend in decreasing key order, never on an expired or invalid entry, up to
\* and including the first entry on which the visitor signals stop.
C16_WalkVisitsLiveInOrder ==
    [][/\ Returned({"Ascend"}) =>
              VisitsLiveInOrder(res'.seen, data, res'.stop,
                                LAMBDA j, k : Rank(j) < Rank(k))
       /\ Returned({"Descend"}) =>
              VisitsLiveInOrder(res'.seen, data, res'.stop,
                                LAMBDA j, k : Rank(j) > Rank(k))]_vars

\* C17: inside a transaction, the backward map holds for every key it records
\* what the primary index held under the key when the transaction began (nil
\* for an absent key), whatever Set and Delete calls followed the first one.
C17_BackwardFirstTouch ==
    \A t \in Txs :
        (txState[t] # "none" /\ ends[t] = <<>>) =>
            \A k \in Keys : backward[t][k] # Missing => backward[t][k] = data0[k]

\* C18: a Delete of a key that the primary index does not hold returns no entry
\* and no error and leaves the primary index, the secondary indexes and the
\* backward and forward maps as they were; when such a Delete is the last call
\* before the transaction ends and no Set or Delete of the transaction took
\* effect on the key, a CommitTx has written no log record for the key and a
\* RollbackTx has left the key absent.
C18_NoopDeleteChangesNothing ==
    /\ [][\A t \in OneTx :
              (~Closed(t) /\ Returned({"Delete"}) /\ data[res'.k] = nil) =>
                  /\ res'.e = nil
                  /\ res'.err = OK
                  /\ UNCHANGED <<data, indexes, backward, forward>>]_vars
    /\ [](\A t \in OneTx : \A k \in Keys :
              (res = Result("Delete", k, nil, OK) /\ net[t][k] = Missing) =>
                  /\ JustEnded(t, "CommitTx", OK) => RecordsOf(k) = {}
                  /\ JustEnded(t, "RollbackTx", OK) => data[k] = data0[k])

\* C18 witness: a locked ReadWrite transaction deleted key "a", absent from the
\* bucket, and was committed: the log holds the flush only.
C18_Witness ==
    /\ res = Result("Delete", "a", nil, OK)
    /\ data0["a"] = nil /\ net[1]["a"] = Missing
    /\ txMode[1] = MODE_READ_WRITE /\ txState[1] = "locked" /\ ~fatal
    /\ JustEnded(1, "CommitTx", OK)
    /\ aof = <<FlushRec>>

\* C19: right after a Set or a Delete that took effect on a key, every
\* registered secondary index holds under the key what the primary index
\* holds: the entry set, or nothing after a Delete.
C19_ForwardPathMaintainsIndexes ==
    [][\A t \in OneTx : \A k \in Keys :
          (forward'[t][k] # forward[t][k] \/ backward'[t][k] # backward[t][k]) =>
              \A n \in IndexNames :
                  indexes'[n] # NilIndex => indexes'[n].t[k] = data'[k]]_vars

\* The positions of the flushes in the log.
Flushes == {i \in DOMAIN aof : aof[i] = FlushRec}

\* C20: after the successful CommitTx of a ReadWrite transaction the log holds
\* exactly one flush, which is its last element, so every insert and delete
\* record was appended before the flush and none after it, and the flush was
\* in the log when the transaction called unlock.
C20_CommitOrdering ==
    \A t \in Txs :
        (txMode[t] = MODE_READ_WRITE /\ JustEnded(t, "CommitTx", OK)) =>
            /\ Cardinality(Flushes) = 1
            /\ Flushes = {Len(aof)}
            /\ unlockLog[t] = aof

\* C20 witness: a committed transaction whose log holds a delete record and an
\* insert record, in this order, before the flush.
C20_Witness ==
    /\ txMode[1] = MODE_READ_WRITE
    /\ JustEnded(1, "CommitTx", OK)
    /\ Len(aof) = 3
    /\ aof[1].op = "delete" /\ aof[2].op = "insert" /\ aof[3] = FlushRec
    /\ unlockLog[1] = aof
====
